---- MODULE Spec2Model ----
(***************************************************************************)
(* A model of astroNN's CNNBase (src/astroNN/models/CNNBase.py) and of its *)
(* base class NeuralNetMaster (src/astroNN/models/NeuralNetMaster.py): the *)
(* batch generators, train(), test(), compile() and the save step.         *)
(*                                                                         *)
(* Numbers that numpy holds as floating point are modelled as binary       *)
(* floating point with Prec significand bits, rounded to nearest (ties to  *)
(* even) after every operation, with an unbounded exponent (no overflow,   *)
(* no underflow).  A float is <<m, e>>, the value m * 2^e, with m odd or   *)
(* <<0, 0>>, so that equal values are equal tuples.                        *)
(***************************************************************************)
EXTENDS Integers, Sequences, FiniteSets, TLC

\* ------------------------------------------------------------ bounds
\* significand bits of the modelled floating point (float64 has 53)
Prec == 4
\* the round-trip inputs are the floats nearest to n/10, n in -MaxVal..MaxVal
MaxVal == 4
\* rows of a dataset handed to a batch generator on its own, or to test()
MaxGenRows == 4
\* batch sizes of a batch generator on its own, or of an instance under test()
MaxGenBatch == 3
\* rows of the data handed to train()
MaxRows == 3
\* batch sizes of the instance
MaxBatch == 2
\* calls made on one instance
MaxCalls == 2
\* batches the framework's enqueuer holds ahead of predict_generator (keras: 10)
MaxQueue == 2

\* ------------------------------------------------------------ floating point
None == "None"

RECURSIVE Pow2(_)
Pow2(k) == IF k = 0 THEN 1 ELSE 2 * Pow2(k - 1)

Abs(n) == IF n < 0 THEN -n ELSE n

Sign(n) == IF n < 0 THEN -1 ELSE 1

\* the canonical form of m * 2^e
RECURSIVE Canon(_, _)
Canon(m, e) ==
    IF m = 0 THEN <<0, 0>>
    ELSE IF m % 2 = 0 THEN Canon(m \div 2, e + 1)
    ELSE <<m, e>>

\* a scaling of a/d by a power of the radix r (2, or 4 under a square root)
\* that brings it into [r^(Prec-1), r^Prec)
RECURSIVE Scale(_, _, _, _)
Scale(a, d, e, r) ==
    LET lo == IF r = 2 THEN Pow2(Prec - 1) ELSE Pow2(2 * (Prec - 1))
        hi == IF r = 2 THEN Pow2(Prec) ELSE Pow2(2 * Prec)
    IN  IF a < d * lo THEN Scale(a * r, d, e - 1, r)
        ELSE IF a >= d * hi THEN Scale(a, d * r, e + 1, r)
        ELSE <<a, d, e>>

\* s = <<a, d, e>> is a scaled a/d: the float nearest to sign * (a/d) * 2^e,
\* ties to even
RoundScaled(sign, s) ==
    LET k == s[1] \div s[2]
        r == s[1] % s[2]
    IN  IF (2 * r > s[2]) \/ (2 * r = s[2] /\ k % 2 = 1)
        THEN Canon(sign * (k + 1), s[3])
        ELSE Canon(sign * k, s[3])

\* the float nearest to the rational n/d (d > 0), ties to even
RoundRat(n, d) ==
    IF n = 0 THEN <<0, 0>>
    ELSE CHOOSE x \in {RoundScaled(Sign(n), s) : s \in {Scale(Abs(n), d, 0, 2)}} : TRUE

\* numerator and denominator of a float
Num(x) == IF x[2] >= 0 THEN x[1] * Pow2(x[2]) ELSE x[1]
Den(x) == IF x[2] >= 0 THEN 1 ELSE Pow2(-x[2])

FromInt(n) == RoundRat(n, 1)

Zero == <<0, 0>>

\* what numpy yields for a division by zero, and for any operation on it:
\* inf or nan (zero is <<0, 0>> alone, so no finite float equals it)
NonFinite == <<0, 1>>

\* the operations on the values of their operands (an operand is evaluated
\* once, by the operation below that binds it)
AddValues(x, y) ==
    IF x = NonFinite \/ y = NonFinite THEN NonFinite
    ELSE RoundRat(Num(x) * Den(y) + Num(y) * Den(x), Den(x) * Den(y))

SubValues(x, y) ==
    IF x = NonFinite \/ y = NonFinite THEN NonFinite
    ELSE RoundRat(Num(x) * Den(y) - Num(y) * Den(x), Den(x) * Den(y))

MulValues(x, y) ==
    IF x = NonFinite \/ y = NonFinite THEN NonFinite
    ELSE RoundRat(Num(x) * Num(y), Den(x) * Den(y))

DivValues(x, y) ==
    IF x = NonFinite \/ y = NonFinite \/ y = Zero THEN NonFinite
    ELSE RoundRat(Sign(Num(y)) * Num(x) * Den(y), Den(x) * Abs(Num(y)))

\* s = <<a, d, e>> is a/d scaled by a power of 4: the float nearest to
\* sqrt(a/d) * 2^e
SqrtScaled(s) ==
    LET q == s[1] \div s[2]
        k == CHOOSE i \in 0..Pow2(Prec) : i * i <= q /\ q < (i + 1) * (i + 1)
    IN  IF (2 * k + 1) * (2 * k + 1) * s[2] <= 4 * s[1]
        THEN Canon(k + 1, s[3])
        ELSE Canon(k, s[3])

SqrtValue(x) ==
    IF x = NonFinite THEN NonFinite
    ELSE IF x[1] = 0 THEN <<0, 0>>
    ELSE CHOOSE y \in {SqrtScaled(s) : s \in {Scale(Num(x), Den(x), 0, 4)}} : TRUE

\* x + y, x - y, x * y, x / y and the square root of x >= 0, each correctly
\* rounded
FAdd(x, y) == CHOOSE z \in {AddValues(a, b) : a \in {x}, b \in {y}} : TRUE

FSub(x, y) == CHOOSE z \in {SubValues(a, b) : a \in {x}, b \in {y}} : TRUE

FMul(x, y) == CHOOSE z \in {MulValues(a, b) : a \in {x}, b \in {y}} : TRUE

FDiv(x, y) == CHOOSE z \in {DivValues(a, b) : a \in {x}, b \in {y}} : TRUE

FSqrt(x) == CHOOSE z \in {SqrtValue(a) : a \in {x}} : TRUE

\* ------------------------------------------------------------ normalization
\* test(): input_array -= self.input_mean; input_array /= self.input_std
NormalizeValue(value, mean, std) == FDiv(FSub(value, mean), std)

\* the denormalization with the mean left out
DenormalizeValueNoMean(value, mean, std) == FMul(value, std)

\* test(): predictions *= self.labels_std; predictions += self.labels_mean
DenormalizeValue(value, mean, std) == FAdd(FMul(value, std), mean)

\* ------------------------------------------------------------ state
VARIABLES
    rt,     \* the round trip of one value: its inputs, its step, its results
    gen,    \* a batch generator: the generator object and its coroutine frame
    self,   \* the model instance: its attributes
    call,   \* the call in progress on the instance, or the last one: its locals
    files,  \* the files of the run folder self.fullfilepath
    ncalls  \* how many calls were made on the instance

vars == <<rt, gen, self, call, files, ncalls>>

NoRt == [pc |-> "none"]
NoGen == [pc |-> "none"]
NoSelf == [task |-> "none"]
NoCall == [op |-> "none", pc |-> "none"]
NoFiles == [folder |-> "none"]

\* ------------------------------------------------------------ batch generators
\* range(n)
Range(n) == [k \in 1..n |-> k - 1]

\* every order of the elements of the list s
Shuffles(s) ==
    {[k \in 1..Len(s) |-> s[f[k]]] :
        f \in {g \in [1..Len(s) -> 1..Len(s)] : \A a, b \in 1..Len(s) : g[a] = g[b] => a = b}}

\* GeneratorMaster._get_exploration_order: the orders it may return
GetExplorationOrder(shuffle, idx_list) ==
    IF shuffle = TRUE THEN Shuffles(idx_list) ELSE {idx_list}

\* imax with a last, partial batch counted
ImaxCeil(indexes, batch_size) == (Len(indexes) + batch_size - 1) \div batch_size

\* imax = int(len(indexes) / self.batch_size)
Imax(indexes, batch_size) == Len(indexes) \div batch_size

\* indexes[i * self.batch_size:(i + 1) * self.batch_size], a Python slice
IdxListTemp(indexes, i, batch_size) ==
    LET lo == IF i * batch_size < Len(indexes) THEN i * batch_size ELSE Len(indexes)
        hi == IF (i + 1) * batch_size < Len(indexes) THEN (i + 1) * batch_size ELSE Len(indexes)
    IN  SubSeq(indexes, lo + 1, hi)

\* _data_generation: inputs[idx_list_temp] (and labels[idx_list_temp])
DataGeneration(data, idx_list_temp) ==
    [k \in 1..Len(idx_list_temp) |-> data[idx_list_temp[k] + 1]]

\* CNNDataGenerator(batch_size).generate(inputs, labels): a generator object;
\* none of its body has run
CNNDataGenerator(batch_size, inputs, labels) ==
    [kind |-> "CNNDataGenerator", batch_size |-> batch_size, shuffle |-> TRUE,
     inputs |-> inputs, labels |-> labels,
     pc |-> "created", running |-> FALSE, idx_list |-> <<>>, indexes |-> <<>>,
     imax |-> 0, i |-> 0, out |-> None, epoch |-> <<>>, passed |-> FALSE]

\* the prediction generator with the shuffle of the training generator
CNNPredDataGeneratorShuffled(batch_size, inputs) ==
    [kind |-> "CNNPredDataGenerator", batch_size |-> batch_size, shuffle |-> TRUE,
     inputs |-> inputs, labels |-> None,
     pc |-> "created", running |-> FALSE, idx_list |-> <<>>, indexes |-> <<>>,
     imax |-> 0, i |-> 0, out |-> None, epoch |-> <<>>, passed |-> FALSE]

\* CNNPredDataGenerator(batch_size).generate(inputs)
CNNPredDataGenerator(batch_size, inputs) ==
    [kind |-> "CNNPredDataGenerator", batch_size |-> batch_size, shuffle |-> FALSE,
     inputs |-> inputs, labels |-> None,
     pc |-> "created", running |-> FALSE, idx_list |-> <<>>, indexes |-> <<>>,
     imax |-> 0, i |-> 0, out |-> None, epoch |-> <<>>, passed |-> FALSE]

\* next(generator): the consumer asks for a batch; the body starts, or goes on
\* after the yield it stopped at
GenRequest ==
    /\ gen.pc \in {"created", "yield"}
    /\ ~gen.running
    /\ gen' = IF gen.pc = "created"
              THEN [gen EXCEPT !.running = TRUE, !.pc = "while",
                               !.idx_list = Range(Len(gen.inputs))]
              ELSE [gen EXCEPT !.running = TRUE, !.pc = "for", !.i = gen.i + 1]

\* while 1: indexes = self._get_exploration_order(idx_list); imax = ...
GenExplorationOrder ==
    /\ gen.pc = "while"
    /\ \E indexes \in GetExplorationOrder(gen.shuffle, gen.idx_list) :
        gen' = [gen EXCEPT !.pc = "for", !.indexes = indexes,
                           !.imax = Imax(indexes, gen.batch_size),
                           !.i = 0, !.epoch = <<>>, !.passed = FALSE]

\* for i in range(imax): ... yield x, y
GenYield ==
    /\ gen.pc = "for"
    /\ gen.i < gen.imax
    /\ LET idx_list_temp == IdxListTemp(gen.indexes, gen.i, gen.batch_size)
           x == DataGeneration(gen.inputs, idx_list_temp)
       IN  gen' = [gen EXCEPT !.pc = "yield", !.running = FALSE,
                              !.out = IF gen.kind = "CNNDataGenerator"
                                      THEN <<x, DataGeneration(gen.labels, idx_list_temp)>>
                                      ELSE x,
                              !.epoch = gen.epoch \o idx_list_temp]

\* the for loop is exhausted: back to while 1
GenPassEnd ==
    /\ gen.pc = "for"
    /\ gen.i >= gen.imax
    /\ gen' = [gen EXCEPT !.pc = "while", !.passed = TRUE]

\* the steps of the generator's body
GenStep == GenExplorationOrder \/ GenYield \/ GenPassEnd

GenInit ==
    /\ rt = NoRt
    /\ self = NoSelf /\ call = NoCall /\ files = NoFiles /\ ncalls = 0
    /\ \E n \in 1..MaxGenRows, batch_size \in 1..MaxGenBatch :
        \/ gen = CNNDataGenerator(batch_size, [k \in 1..n |-> k], [k \in 1..n |-> -k])
        \/ gen = CNNPredDataGenerator(batch_size, [k \in 1..n |-> k])

GenOnly == UNCHANGED <<rt, self, call, files, ncalls>>

GenNext ==
    \/ GenRequest /\ GenOnly
    \/ GenExplorationOrder /\ GenOnly
    \/ GenYield /\ GenOnly
    \/ GenPassEnd /\ GenOnly

GenSpec == GenInit /\ [][GenNext]_vars

\* a call of next() runs the body until it yields
GenLiveSpec == GenSpec /\ WF_vars(GenStep /\ GenOnly)

\* how many times index idx was yielded in the current pass
YieldCount(idx) == Cardinality({k \in 1..Len(gen.epoch) : gen.epoch[k] = idx})

GenIndices == 0..(Len(gen.inputs) - 1)

\* C2 as stated: at the end of every pass over the dataset, every index
\* 0..N-1 was yielded exactly once
C2_EveryIndexOncePerPass ==
    gen.passed => \A idx \in GenIndices : YieldCount(idx) = 1

\* C2, amended: in every pass no index is yielded twice and every batch is a
\* full one; at the end of the pass exactly floor(N/B)*B indices were yielded,
\* which is all of them exactly when B divides N
C2_FullBatchesOncePerPass ==
    /\ \A idx \in GenIndices : YieldCount(idx) <= 1
    /\ \A k \in 1..Len(gen.epoch) : gen.epoch[k] \in GenIndices
    /\ Len(gen.epoch) % gen.batch_size = 0
    /\ gen.pc = "yield" => Len(gen.out) = IF gen.kind = "CNNDataGenerator" THEN 2 ELSE gen.batch_size
    /\ gen.pc = "yield" /\ gen.kind = "CNNDataGenerator" =>
            Len(gen.out[1]) = gen.batch_size /\ Len(gen.out[2]) = gen.batch_size
    /\ gen.passed =>
            Len(gen.epoch) = (Len(gen.inputs) \div gen.batch_size) * gen.batch_size

\* a finished pass that yielded batches and left a remainder out
C2_Witness ==
    /\ gen.passed
    /\ Len(gen.inputs) % gen.batch_size # 0
    /\ Len(gen.epoch) > 0
    /\ gen.shuffle = TRUE

\* C4: every request for the next batch is answered with a batch
C4_EveryRequestAnswered ==
    (gen.pc # "none" /\ gen.running) ~> (gen.pc = "yield" /\ ~gen.running)

\* ------------------------------------------------------------ Normalizer
\* an attribute that no code has assigned yet
Unset == <<>>

\* a normalizer attribute that is None; one that is set is <<normalizer>>
NoNormalizer == <<>>

RECURSIVE FSum(_)
FSum(data) == IF Len(data) = 0 THEN Zero ELSE FAdd(FSum(SubSeq(data, 1, Len(data) - 1)), data[Len(data)])

\* numpy.mean
FMean(data) == FDiv(FSum(data), FromInt(Len(data)))

\* numpy.std: sqrt(mean(abs(x - x.mean()) ** 2))
FStd(data) ==
    FSqrt(FMean(CHOOSE dev \in {[k \in 1..Len(data) |-> FMul(FSub(data[k], mean), FSub(data[k], mean))] :
                                    mean \in {FMean(data)}} : TRUE))

\* Normalizer(mode=mode)
Normalizer(mode) == [mode |-> mode, mean_labels |-> Zero, std_labels |-> FromInt(1)]

\* Normalizer.normalize(data): the statistics of data are computed and kept
\* on the normalizer, and data is scaled with them
NormalizerNormalize(normalizer, data) ==
    CHOOSE r \in {[normalizer |-> [normalizer EXCEPT !.mean_labels = mean, !.std_labels = std],
                   data |-> [k \in 1..Len(data) |-> FDiv(FSub(data[k], mean), std)]] :
                        mean \in {FMean(data)}, std \in {FStd(data)}} : TRUE

\* Normalizer.denormalize(data): data scaled back with the kept statistics
NormalizerDenormalize(normalizer, data) ==
    [k \in 1..Len(data) |-> FAdd(FMul(data[k], normalizer.std_labels), normalizer.mean_labels)]

\* ------------------------------------------------------------ the model instance
\* the tasks compile() supports
Tasks == {"regression", "classification", "binary_classification"}

\* NeuralNetMaster.__init__ and CNNBase.__init__, and then the attributes the
\* user sets before training
NewInstance(task, batch_size, val_size, autosave) ==
    [task |-> task, batch_size |-> batch_size, val_size |-> val_size, autosave |-> autosave,
     val_num |-> None, num_train |-> None, optimizer |-> None,
     keras_model |-> None, metrics |-> None, last_layer_activation |-> None,
     input_normalizer |-> NoNormalizer, labels_normalizer |-> NoNormalizer,
     input_norm_mode |-> 1, labels_norm_mode |-> 2,
     input_mean |-> Unset, input_std |-> Unset, labels_mean |-> Unset, labels_std |-> Unset,
     training_generator |-> None, validation_generator |-> Unset,
     hyper_txt |-> Unset, history |-> Unset]

\* floor(n * val_size), val_size the rational <<numerator, denominator>>
FloorTimes(n, val_size) == (n * val_size[1]) \div val_size[2]

\* ceil(n * val_size)
CeilTimes(n, val_size) == (n * val_size[1] + val_size[2] - 1) \div val_size[2]

\* compile() with the model built before the task is looked at
CompileBuildsFirst(s) ==
    LET opt == IF s.optimizer = None \/ s.optimizer = "adam" THEN "Adam" ELSE s.optimizer
        act == CASE s.task = "regression" -> "linear"
                 [] s.task = "classification" -> "softmax"
                 [] s.task = "binary_classification" -> "sigmoid"
                 [] OTHER -> s.last_layer_activation
    IN  [self |-> [s EXCEPT !.optimizer = opt, !.keras_model = "compiled",
                            !.last_layer_activation = act],
         raised |-> IF s.task \in Tasks THEN None ELSE "RuntimeError"]

\* CNNBase.compile(), called with no arguments
Compile(s) ==
    LET opt == IF s.optimizer = None \/ s.optimizer = "adam" THEN "Adam" ELSE s.optimizer
        s1 == [s EXCEPT !.optimizer = opt]
        act == CASE s.task = "regression" -> "linear"
                 [] s.task = "classification" -> "softmax"
                 [] s.task = "binary_classification" -> "sigmoid"
                 [] OTHER -> None
        met == CASE s.task = "regression" -> "[mean_absolute_error]"
                 [] s.task = "classification" -> "[categorical_accuracy]"
                 [] s.task = "binary_classification" -> "[binary_accuracy]"
                 [] OTHER -> None
    IN  IF s.task \in Tasks
        THEN [self |-> [s1 EXCEPT !.last_layer_activation = act,
                                  !.metrics = IF s.metrics = None THEN met ELSE s.metrics,
                                  !.keras_model = "compiled"],
              raised |-> None]
        ELSE [self |-> s1, raised |-> "RuntimeError"]

\* NeuralNetMaster.pre_training_checklist_master: the counts, and the run
\* folder with its hyperparameter.txt, written and closed
PreTrainingChecklistMaster(s, f, input_data) ==
    LET val_size == IF s.val_size = None THEN <<0, 1>> ELSE s.val_size
        val_num == FloorTimes(Len(input_data), val_size)
    IN  [self |-> [s EXCEPT !.val_size = val_size, !.val_num = val_num,
                            !.num_train = Len(input_data) - val_num],
         files |-> [folder |-> f.folder + 1, hyperparameter_txt |-> "closed",
                    model_weights |-> FALSE, parameter_json |-> <<>>]]

\* whether the statistics are computed on every call
AlwaysNormalizes(s) == TRUE

\* if self.input_normalizer is None
NeedsNormalizers(s) == s.input_normalizer = NoNormalizer

\* else: norm_data = self.input_normalizer.denormalize(input_data)
FineTuneData(normalizer, data) == NormalizerDenormalize(normalizer, data)

\* pre_training_checklist_child, the normalization: the instance, norm_data
\* and norm_labels
TrainNormalization(s, input_data, labels) ==
    IF NeedsNormalizers(s)
    THEN LET i == NormalizerNormalize(Normalizer(s.input_norm_mode), input_data)
             l == NormalizerNormalize(Normalizer(s.labels_norm_mode), labels)
         IN  [self |-> [s EXCEPT !.input_normalizer = <<i.normalizer>>,
                                 !.labels_normalizer = <<l.normalizer>>,
                                 !.input_mean = i.normalizer.mean_labels,
                                 !.input_std = i.normalizer.std_labels,
                                 !.labels_mean = l.normalizer.mean_labels,
                                 !.labels_std = l.normalizer.std_labels],
              norm_data |-> i.data, norm_labels |-> l.data]
    ELSE [self |-> s,
          norm_data |-> FineTuneData(s.input_normalizer[1], input_data),
          norm_labels |-> FineTuneData(s.labels_normalizer[1], labels)]

\* the sorted list of the elements of a set of numbers
RECURSIVE Sorted(_)
Sorted(set) ==
    IF set = {} THEN <<>>
    ELSE LET least == CHOOSE x \in set : \A y \in set : x <= y
         IN  <<least>> \o Sorted(set \ {least})

\* sklearn's train_test_split(np.arange(n), test_size=val_size): the pairs
\* <<train_idx, test_idx>> it may return, each as a sorted list; a split that
\* leaves the training part empty is returned by some versions of sklearn and
\* raises ValueError in others
TrainTestSplit(n, val_size) ==
    LET n_test == CeilTimes(n, val_size)
    IN  {<<Sorted((0..(n - 1)) \ test), Sorted(test)>> :
            test \in {t \in SUBSET (0..(n - 1)) : Cardinality(t) = n_test}}

SplitMayRaise(n, val_size) == n - CeilTimes(n, val_size) = 0

\* np.arange(self.num_train): the rows that are split
SplitRows(s, input_data) == s.num_train

\* whether next() on the generator returns: its pass holds a batch
GenCanYield(g) == Imax(Range(Len(g.inputs)), g.batch_size) >= 1

\* CNNBase.post_training_checklist_child: the weights, the line added to the
\* hyperparameter log through self.hyper_txt, the JSON parameter file
PostTrainingChecklistChild(s, f) ==
    LET f1 == [f EXCEPT !.model_weights = TRUE]
    IN  IF s.hyper_txt = Unset
        THEN [files |-> f1, raised |-> "AttributeError"]
        ELSE [files |-> [f1 EXCEPT !.hyperparameter_txt = "closed with dropout rate",
                                   !.parameter_json =
                                       <<[input_mean |-> s.input_mean, input_std |-> s.input_std,
                                          labels_mean |-> s.labels_mean, labels_std |-> s.labels_std,
                                          task |-> s.task, valsize |-> s.val_size,
                                          batch_size |-> s.batch_size]>>],
              raised |-> None]

\* save(): the save step of the instance
Save(s, f) == PostTrainingChecklistChild(s, f)

\* ------------------------------------------------------------ train() and compile()
\* the values of a row of input data or of labels
TrainValues == {Zero, FromInt(3)}

\* the data a train() call is given: input data of 1..MaxRows rows, and as
\* labels the other value of each row
Datasets ==
    UNION {{<<x, [k \in 1..n |-> IF x[k] = Zero THEN FromInt(3) ELSE Zero]>> :
                x \in [1..n -> TrainValues]} : n \in 1..MaxRows}

\* the validation fractions: 0.1 is CNNBase.__init__'s, 0.5 a user's
ValSizes == {<<1, 10>>, <<1, 2>>}

\* the task the user sets: a supported one, an unsupported one, or none
TaskChoices == Tasks \cup {None, "segmentation"}

\* no call is in progress
Idle == {"idle", "returned", "raised"}

NewCall(op, pc) ==
    [op |-> op, pc |-> pc, input_data |-> <<>>, labels |-> <<>>,
     norm_data |-> None, norm_labels |-> None, train_idx |-> None, test_idx |-> None,
     steps |-> <<>>, error |-> None]

\* the call has ended, by a return or by an exception: its locals are gone
EndCall(c, pc, error, step) ==
    [NewCall(c.op, pc) EXCEPT !.steps = IF step = None THEN c.steps ELSE Append(c.steps, step),
                              !.error = error]

\* train() with the save step taken whatever autosave is
TrainFlowAlwaysSaves(step, s) ==
    CASE step = "master" -> "normalize"
      [] step = "normalize" -> IF s.keras_model = None THEN "compile" ELSE "split"
      [] step = "compile" -> "split"
      [] step = "split" -> "fit"
      [] step = "fit" -> "save"
      [] step = "save" -> "return"

\* the order of the steps of train() and of pre_training_checklist_child:
\* the step that follows `step`
TrainFlow(step, s) ==
    CASE step = "master" -> "normalize"
      [] step = "normalize" -> IF s.keras_model = None THEN "compile" ELSE "split"
      [] step = "compile" -> "split"
      [] step = "split" -> "fit"
      [] step = "fit" -> IF s.autosave = TRUE THEN "save" ELSE "return"
      [] step = "save" -> "return"

Init ==
    /\ rt = NoRt /\ gen = NoGen
    /\ \E task \in TaskChoices, batch_size \in 1..MaxBatch, val_size \in ValSizes,
          autosave \in BOOLEAN :
        self = NewInstance(task, batch_size, val_size, autosave)
    /\ call = NewCall("none", "idle")
    /\ files = [folder |-> 0, hyperparameter_txt |-> "absent", model_weights |-> FALSE,
                parameter_json |-> <<>>]
    /\ ncalls = 0

\* the user calls train(input_data, labels)
TrainCall ==
    /\ call.pc \in Idle
    /\ ncalls < MaxCalls
    /\ \E d \in Datasets :
        call' = [NewCall("train", "master") EXCEPT !.input_data = d[1], !.labels = d[2]]
    /\ ncalls' = ncalls + 1
    /\ UNCHANGED <<rt, gen, self, files>>

\* the user calls compile()
CompileCall ==
    /\ call.pc \in Idle
    /\ ncalls < MaxCalls
    /\ LET r == Compile(self)
       IN  /\ self' = r.self
           /\ call' = [NewCall("compile", IF r.raised = None THEN "returned" ELSE "raised")
                          EXCEPT !.steps = <<"compile">>, !.error = r.raised]
    /\ ncalls' = ncalls + 1
    /\ UNCHANGED <<rt, gen, files>>

\* self.pre_training_checklist_master(input_data, labels)
TrainMaster ==
    /\ call.op = "train" /\ call.pc = "master"
    /\ LET r == PreTrainingChecklistMaster(self, files, call.input_data)
       IN  /\ self' = r.self
           /\ files' = r.files
           /\ call' = [call EXCEPT !.pc = TrainFlow("master", r.self),
                                   !.steps = Append(call.steps, "configure")]
    /\ UNCHANGED <<rt, gen, ncalls>>

\* if self.input_normalizer is None: ... else: ...
TrainNormalize ==
    /\ call.op = "train" /\ call.pc = "normalize"
    /\ LET r == TrainNormalization(self, call.input_data, call.labels)
       IN  /\ self' = r.self
           /\ call' = [call EXCEPT !.pc = TrainFlow("normalize", r.self),
                                   !.norm_data = r.norm_data, !.norm_labels = r.norm_labels,
                                   !.steps = Append(call.steps, "normalize")]
    /\ UNCHANGED <<rt, gen, files, ncalls>>

\* if self.keras_model is None: self.compile()
TrainCompile ==
    /\ call.op = "train" /\ call.pc = "compile"
    /\ LET r == Compile(self)
       IN  /\ self' = r.self
           /\ call' = IF r.raised = None
                       THEN [call EXCEPT !.pc = TrainFlow("compile", r.self),
                                         !.steps = Append(call.steps, "compile")]
                       ELSE EndCall(call, "raised", r.raised, "compile")
    /\ UNCHANGED <<rt, gen, files, ncalls>>

\* data[idx], idx a list of row numbers from 0
Rows(data, idx) == [k \in 1..Len(idx) |-> data[idx[k] + 1]]

\* train_idx, test_idx = train_test_split(...); the two generators
TrainSplit ==
    /\ call.op = "train" /\ call.pc = "split"
    /\ \/ \E split \in TrainTestSplit(SplitRows(self, call.input_data), self.val_size) :
            /\ self' = [self EXCEPT
                   !.training_generator =
                       CNNDataGenerator(self.batch_size, Rows(call.norm_data, split[1]),
                                        Rows(call.norm_labels, split[1])),
                   !.validation_generator =
                       CNNDataGenerator(self.batch_size, Rows(call.norm_data, split[2]),
                                        Rows(call.norm_labels, split[2]))]
            /\ call' = [call EXCEPT !.pc = TrainFlow("split", self),
                                    !.train_idx = split[1], !.test_idx = split[2],
                                    !.steps = Append(call.steps, "split")]
       \/ /\ SplitMayRaise(SplitRows(self, call.input_data), self.val_size)
          /\ self' = self
          /\ call' = EndCall(call, "raised", "ValueError", "split")
    /\ UNCHANGED <<rt, gen, files, ncalls>>

\* self.keras_model.fit_generator(...): the framework draws batches from both
\* generators, and returns only if both yield
TrainFit ==
    /\ call.op = "train" /\ call.pc = "fit"
    /\ IF GenCanYield(self.training_generator) /\ GenCanYield(self.validation_generator)
       THEN /\ self' = [self EXCEPT !.history = <<"History">>]
            /\ call' = [call EXCEPT !.pc = TrainFlow("fit", self),
                                    !.steps = Append(call.steps, "fit")]
       ELSE /\ self' = self
            /\ call' = [call EXCEPT !.pc = "hung", !.steps = Append(call.steps, "fit")]
    /\ UNCHANGED <<rt, gen, files, ncalls>>

\* if self.autosave is True: self.save()
TrainSave ==
    /\ call.op = "train" /\ call.pc = "save"
    /\ LET r == Save(self, files)
       IN  /\ files' = r.files
           /\ call' = IF r.raised = None
                       THEN [call EXCEPT !.pc = TrainFlow("save", self),
                                         !.steps = Append(call.steps, "save")]
                       ELSE EndCall(call, "raised", r.raised, "save")
    /\ UNCHANGED <<rt, gen, self, ncalls>>

\* return None
TrainReturn ==
    /\ call.op = "train" /\ call.pc = "return"
    /\ call' = EndCall(call, "returned", None, None)
    /\ UNCHANGED <<rt, gen, self, files, ncalls>>

Next ==
    \/ TrainCall
    \/ CompileCall
    \/ TrainMaster
    \/ TrainNormalize
    \/ TrainCompile
    \/ TrainSplit
    \/ TrainFit
    \/ TrainSave
    \/ TrainReturn

Spec == Init /\ [][Next]_vars

\* ------------------------------------------------------------ claims on train() and compile()
Last(seq) == seq[Len(seq)]

\* the normalizers and the four statistics of the instance
Statistics(s) ==
    <<s.input_normalizer, s.labels_normalizer,
      s.input_mean, s.input_std, s.labels_mean, s.labels_std>>

\* C1: the statistics are computed only by a train() call that finds
\* input_normalizer None; once the normalizers are set, no step of any later
\* call changes the normalizers or the four statistics
C1_StatisticsComputedOnce ==
    [][self.input_normalizer # NoNormalizer => Statistics(self)' = Statistics(self)]_vars

\* a later train() call, past its normalization, on data whose mean is not
\* the stored one
C1_Witness ==
    /\ ncalls = 2
    /\ call.op = "train" /\ call.pc = "fit"
    /\ self.input_mean # FMean(call.input_data)
    /\ self.labels_std # Zero

\* train() is in its step `pc`
InTrain(pc) == call.op = "train" /\ call.pc = pc

\* data normalized with the stored statistics, as test() normalizes
NormalizedWith(data, mean, std) == [k \in 1..Len(data) |-> NormalizeValue(data[k], mean, std)]

\* C9: on every train() call the generators are handed the input data and the
\* labels normalized with the stored statistics
C9_GeneratorsGetNormalizedData ==
    InTrain("fit") =>
        LET x == NormalizedWith(call.input_data, self.input_mean, self.input_std)
            y == NormalizedWith(call.labels, self.labels_mean, self.labels_std)
        IN  /\ self.training_generator.inputs = Rows(x, call.train_idx)
            /\ self.training_generator.labels = Rows(y, call.train_idx)
            /\ self.validation_generator.inputs = Rows(x, call.test_idx)
            /\ self.validation_generator.labels = Rows(y, call.test_idx)

SetOf(seq) == {seq[k] : k \in 1..Len(seq)}

\* C10: the counts pre_training_checklist_master reports are the sizes of the
\* sets used: the training generator holds num_train rows, the validation
\* generator val_num rows, the two index sets are disjoint and cover all rows
C10_SplitMatchesReportedCounts ==
    InTrain("fit") =>
        /\ SetOf(call.train_idx) \cap SetOf(call.test_idx) = {}
        /\ Len(self.training_generator.inputs) = self.num_train
        /\ Len(self.validation_generator.inputs) = self.val_num
        /\ SetOf(call.train_idx) \cup SetOf(call.test_idx) = 0..(Len(call.input_data) - 1)

\* C5: when the save step of a train() call has ended, by a return or by an
\* error, the weights file, the extended hyperparameter log and the JSON
\* parameter file all exist
C5_SaveLeavesAllArtifacts ==
    (call.op = "train" /\ call.pc \in {"return", "returned", "raised"}
        /\ call.steps # <<>> /\ Last(call.steps) = "save") =>
        /\ files.model_weights
        /\ files.hyperparameter_txt = "closed with dropout rate"
        /\ files.parameter_json # <<>>

\* this step ran compile(), from a call of the user's or from train()
CompileRan ==
    \/ call'.op = "compile" /\ ncalls' = ncalls + 1
    \/ InTrain("compile") /\ call' # call

\* C6: compile() with an unsupported task ends in a RuntimeError and leaves
\* keras_model, _last_layer_activation and metrics as they were; with a
\* supported task it raises nothing and sets keras_model
C6_CompileChecksTask ==
    [][CompileRan =>
        IF self.task \in Tasks
        THEN /\ call'.error = None
             /\ call'.pc # "raised"
             /\ self'.keras_model # None
        ELSE /\ call'.pc = "raised"
             /\ call'.error = "RuntimeError"
             /\ self'.keras_model = self.keras_model
             /\ self'.last_layer_activation = self.last_layer_activation
             /\ self'.metrics = self.metrics]_vars

\* a compile() that raised and left no model behind
C6_Witness ==
    /\ call.pc = "raised"
    /\ call.error = "RuntimeError"
    /\ Last(call.steps) = "compile"
    /\ self.task \notin Tasks
    /\ self.keras_model = None
    /\ self.optimizer = "Adam"

\* this step ran the step `step` of train()
TrainStepRan(step) ==
    /\ call.op = "train" /\ call.pc \notin Idle
    /\ Len(call'.steps) = Len(call.steps) + 1
    /\ Last(call'.steps) = step

\* the step of train() that ran last before this one
Before(step) == call.steps # <<>> /\ Last(call.steps) = step

\* C7: the steps of a train() call run in the order configure, normalize,
\* compile if there is no model, split, fit, save: fit starts with both
\* generators built over the split, save starts after fit has returned, and
\* a call returns having saved if and only if autosave is True
C7_TrainStepsInOrder ==
    [][/\ TrainStepRan("configure") => call.steps = <<>>
       /\ TrainStepRan("normalize") => Before("configure")
       /\ TrainStepRan("compile") => Before("normalize") /\ self.keras_model = None
       /\ TrainStepRan("split") =>
             \/ Before("compile")
             \/ Before("normalize") /\ self.keras_model # None
       /\ TrainStepRan("fit") =>
             /\ Before("split")
             /\ self.training_generator.inputs = Rows(call.norm_data, call.train_idx)
             /\ self.validation_generator.inputs = Rows(call.norm_data, call.test_idx)
       /\ TrainStepRan("save") =>
             /\ Before("fit")
             /\ self.history # Unset
             /\ self.autosave = TRUE
       /\ (call.op = "train" /\ call.pc \notin Idle /\ call'.pc = "returned") =>
             /\ \E k \in 1..Len(call.steps) : call.steps[k] = "fit"
             /\ self.autosave = TRUE <=> Last(call.steps) = "save"]_vars

\* a train() call that ran all its steps up to fit and returned without saving
C7_Witness ==
    /\ call.op = "train" /\ call.pc = "returned"
    /\ call.steps = <<"configure", "normalize", "compile", "split", "fit">>
    /\ self.autosave = FALSE

\* ------------------------------------------------------------ test()
\* the network's output for a row: keras_model.predict, here the identity map
Predict(value) == value

\* a row of input_array: the number of the input row it was made from (from
\* 1), and its value
InputRows(values) == [k \in 1..Len(values) |-> [row |-> k, value |-> values[k]]]

\* the network's outputs for a batch of rows, reached by way of `via`
PredictBatch(batch, via) ==
    [k \in 1..Len(batch) |-> [row |-> batch[k].row, value |-> Predict(batch[k].value), via |-> via]]

\* np.zeros((total_test_num, self.labels_shape))
Zeros(n) == [k \in 1..n |-> [row |-> 0, value |-> Zero, via |-> "zeros"]]

\* target[lo:] = source, target[:hi] = source: rows lo+1.. of target replaced
AssignFrom(target, lo, source) ==
    [k \in 1..Len(target) |->
        IF k > lo /\ k - lo <= Len(source) THEN source[k - lo] ELSE target[k]]

\* test(), its normalization: the instance and the values of input_array
TestNormalization(s, input_data) ==
    IF s.input_normalizer # NoNormalizer
    THEN LET r == NormalizerNormalize(s.input_normalizer[1], input_data)
         IN  [self |-> [s EXCEPT !.input_normalizer = <<r.normalizer>>], values |-> r.data]
    ELSE [self |-> s,
          values |-> [k \in 1..Len(input_data) |->
                          NormalizeValue(input_data[k], s.input_mean, s.input_std)]]

\* test() with the batch size left as it was
TestBatchSizeKept(batch_size, total_test_num) == batch_size

\* if input_data.shape[0] < self.batch_size: self.batch_size = input_data.shape[0]
TestBatchSize(batch_size, total_test_num) ==
    IF total_test_num < batch_size THEN total_test_num ELSE batch_size

\* data_gen_shape = (total_test_num // self.batch_size) * self.batch_size
DataGenShape(total_test_num, batch_size) == (total_test_num \div batch_size) * batch_size

NewTestCall(input_data, batch_size) ==
    [op |-> "test", pc |-> "normalize", input_data |-> input_data, input_array |-> <<>>,
     batch_size_at_call |-> batch_size,
     total_test_num |-> 0, data_gen_shape |-> 0, remainder_shape |-> 0,
     predictions |-> <<>>, steps |-> 0, drawn |-> 0, pending |-> FALSE, queue |-> <<>>,
     outputs |-> <<>>, predict_calls |-> 0, error |-> None]

\* an instance that train() has fitted on the data d and that is still in
\* memory (kept), or that was saved and loaded again (its normalizers None)
FittedInstance(batch_size, d, kept) ==
    LET new == NewInstance("regression", batch_size, <<1, 10>>, FALSE)
        configured == PreTrainingChecklistMaster(new, [folder |-> 0], d[1]).self
        normalized == TrainNormalization(configured, d[1], d[2]).self
        compiled == Compile(normalized).self
    IN  IF kept THEN compiled
        ELSE [compiled EXCEPT !.input_normalizer = NoNormalizer,
                              !.labels_normalizer = NoNormalizer]

TestInputs == UNION {[1..n -> TrainValues] : n \in 1..MaxGenRows}

TestInit ==
    /\ rt = NoRt /\ gen = NoGen /\ files = NoFiles
    /\ \E batch_size \in 1..MaxGenBatch, kept \in BOOLEAN,
          d \in {x \in Datasets : Len(x[1]) = 2} :
        self = FittedInstance(batch_size, d, kept)
    /\ call = NewCall("none", "idle")
    /\ ncalls = 0

\* the user calls test(input_data)
TestCall ==
    /\ call.pc \in Idle
    /\ ncalls < MaxCalls
    /\ \E input_data \in TestInputs : call' = NewTestCall(input_data, self.batch_size)
    /\ ncalls' = ncalls + 1
    /\ UNCHANGED <<rt, gen, self, files>>

\* self.pre_testing_checklist_master() and the normalization of input_data
TestNormalize ==
    /\ call.op = "test" /\ call.pc = "normalize"
    /\ LET r == TestNormalization(self, call.input_data)
       IN  /\ self' = r.self
           /\ call' = [call EXCEPT !.pc = "prepare", !.input_array = InputRows(r.values)]
    /\ UNCHANGED <<rt, gen, files, ncalls>>

\* total_test_num ... prediction_generator = CNNPredDataGenerator(...).generate(...)
TestPrepare ==
    /\ call.op = "test" /\ call.pc = "prepare"
    /\ LET total_test_num == Len(call.input_data)
           batch_size == TestBatchSize(self.batch_size, total_test_num)
           data_gen_shape == DataGenShape(total_test_num, batch_size)
       IN  /\ self' = [self EXCEPT !.batch_size = batch_size]
           /\ gen' = CNNPredDataGenerator(batch_size, SubSeq(call.input_array, 1, data_gen_shape))
           /\ call' = [call EXCEPT !.pc = "predict_generator",
                                   !.total_test_num = total_test_num,
                                   !.data_gen_shape = data_gen_shape,
                                   !.remainder_shape = total_test_num - data_gen_shape,
                                   !.predictions = Zeros(total_test_num),
                                   !.steps = Len(call.input_array) \div batch_size]
    /\ UNCHANGED <<rt, files, ncalls>>

\* predict_generator's enqueuer asks the generator for a batch while its
\* queue is not full
TestRequest ==
    /\ call.op = "test" /\ call.pc = "predict_generator"
    /\ ~call.pending
    /\ Len(call.queue) < MaxQueue
    /\ GenRequest
    /\ call' = [call EXCEPT !.pending = TRUE]
    /\ UNCHANGED <<rt, self, files, ncalls>>

\* the generator's body runs for the enqueuer
TestGenExplorationOrder ==
    /\ call.op = "test" /\ GenExplorationOrder /\ UNCHANGED <<rt, self, call, files, ncalls>>

TestGenYield ==
    /\ call.op = "test" /\ GenYield /\ UNCHANGED <<rt, self, call, files, ncalls>>

TestGenPassEnd ==
    /\ call.op = "test" /\ GenPassEnd /\ UNCHANGED <<rt, self, call, files, ncalls>>

\* the enqueuer puts the batch it was given on the queue
TestEnqueue ==
    /\ call.op = "test" /\ call.pc = "predict_generator"
    /\ call.pending
    /\ gen.pc = "yield" /\ ~gen.running
    /\ call' = [call EXCEPT !.pending = FALSE, !.queue = Append(call.queue, gen.out)]
    /\ UNCHANGED <<rt, gen, self, files, ncalls>>

\* predict_generator takes a batch off the queue and predicts on it, `steps` times
TestPredictOnBatch ==
    /\ call.op = "test" /\ call.pc = "predict_generator"
    /\ call.drawn < call.steps
    /\ call.queue # <<>>
    /\ call' = [call EXCEPT !.queue = Tail(call.queue),
                            !.drawn = call.drawn + 1,
                            !.outputs = call.outputs \o PredictBatch(Head(call.queue), "generator")]
    /\ UNCHANGED <<rt, gen, self, files, ncalls>>

\* predictions[:data_gen_shape] = np.asarray(self.keras_model.predict_generator(...))
TestAssignGenerated ==
    /\ call.op = "test" /\ call.pc = "predict_generator"
    /\ call.drawn = call.steps
    /\ IF Len(call.outputs) = call.data_gen_shape
       THEN call' = [call EXCEPT !.pc = "remainder",
                                 !.predictions = AssignFrom(call.predictions, 0, call.outputs)]
       ELSE call' = [call EXCEPT !.pc = "raise", !.error = "ValueError"]
    /\ UNCHANGED <<rt, gen, self, files, ncalls>>

\* if remainder_shape != 0: ... predictions[data_gen_shape:] = result
TestRemainder ==
    /\ call.op = "test" /\ call.pc = "remainder"
    /\ IF call.remainder_shape # 0
       THEN LET remainder_data == SubSeq(call.input_array, call.data_gen_shape + 1,
                                         Len(call.input_array))
                result == PredictBatch(remainder_data, "predict")
            IN  call' = [call EXCEPT !.pc = "denormalize",
                                     !.predict_calls = call.predict_calls + 1,
                                     !.predictions = AssignFrom(call.predictions,
                                                                call.data_gen_shape, result)]
       ELSE call' = [call EXCEPT !.pc = "denormalize"]
    /\ UNCHANGED <<rt, gen, self, files, ncalls>>

\* predictions *= self.labels_std; predictions += self.labels_mean
TestDenormalize ==
    /\ call.op = "test" /\ call.pc = "denormalize"
    /\ call' = [call EXCEPT
           !.pc = "return",
           !.predictions = [k \in 1..Len(call.predictions) |->
               [call.predictions[k] EXCEPT
                   !.value = DenormalizeValue(call.predictions[k].value,
                                              self.labels_mean, self.labels_std)]]]
    /\ UNCHANGED <<rt, gen, self, files, ncalls>>

\* return predictions: the locals of the call, its generator among them, are gone
TestReturn ==
    /\ call.op = "test" /\ call.pc \in {"return", "raise"}
    /\ call' = [NewCall("test", IF call.pc = "return" THEN "returned" ELSE "raised")
                   EXCEPT !.error = call.error]
    /\ gen' = NoGen
    /\ UNCHANGED <<rt, self, files, ncalls>>

TestNext ==
    \/ TestCall
    \/ TestNormalize
    \/ TestPrepare
    \/ TestRequest
    \/ TestGenExplorationOrder
    \/ TestGenYield
    \/ TestGenPassEnd
    \/ TestEnqueue
    \/ TestPredictOnBatch
    \/ TestAssignGenerated
    \/ TestRemainder
    \/ TestDenormalize
    \/ TestReturn

TestSpec == TestInit /\ [][TestNext]_vars

Min(a, b) == IF a < b THEN a ELSE b

\* C3: test() on N rows returns N prediction rows, row k the prediction of
\* input row k and of no other: the first floor(N/B')*B' by way of the
\* generator, in floor(N/B') steps, the other N mod B' by one direct predict
\* call, B' = min(B, N); none is left at its initial zero
C3_EveryRowPredictedInPlace ==
    (call.op = "test" /\ call.pc \in {"return", "raise"}) =>
        LET n == Len(call.input_data)
            b == self.batch_size
        IN  /\ Len(call.predictions) = n
            /\ call.pc = "return"
            /\ b = Min(call.batch_size_at_call, n)
            /\ call.drawn = n \div b
            /\ call.predict_calls = IF n % b = 0 THEN 0 ELSE 1
            /\ \A k \in 1..n :
                /\ call.predictions[k].row = k
                /\ call.predictions[k].via = IF k <= (n \div b) * b THEN "generator" ELSE "predict"
                /\ call.predictions[k].value =
                       DenormalizeValue(Predict(call.input_array[k].value),
                                        self.labels_mean, self.labels_std)

\* a test() that returned rows from the generator and rows from predict
C3_Witness ==
    /\ call.op = "test" /\ call.pc = "return"
    /\ call.drawn >= 1
    /\ call.predict_calls = 1
    /\ call.predictions[Len(call.predictions)].via = "predict"
    /\ call.predictions[1].via = "generator"

\* ------------------------------------------------------------ test() and train() on one instance
\* a fitted instance in its run folder, before any further call
SessionInit ==
    /\ rt = NoRt /\ gen = NoGen
    /\ \E batch_size \in 1..MaxGenBatch, kept \in BOOLEAN, autosave \in BOOLEAN,
          d \in {x \in Datasets : Len(x[1]) = 2} :
        self = [FittedInstance(batch_size, d, kept) EXCEPT !.autosave = autosave]
    /\ call = NewCall("none", "idle")
    /\ files = [folder |-> 1, hyperparameter_txt |-> "closed", model_weights |-> FALSE,
                parameter_json |-> <<>>]
    /\ ncalls = 0

\* the user calls test() and train() in any order; the instance has its
\* keras_model, so that train() does not compile
SessionNext ==
    \/ TestCall
    \/ TestNormalize
    \/ TestPrepare
    \/ TestRequest
    \/ TestGenExplorationOrder
    \/ TestGenYield
    \/ TestGenPassEnd
    \/ TestEnqueue
    \/ TestPredictOnBatch
    \/ TestAssignGenerated
    \/ TestRemainder
    \/ TestDenormalize
    \/ TestReturn
    \/ TrainCall
    \/ TrainMaster
    \/ TrainNormalize
    \/ TrainSplit
    \/ TrainFit
    \/ TrainSave
    \/ TrainReturn

SessionSpec == SessionInit /\ [][SessionNext]_vars

\* the instance without its batch size and without the input normalizer
\* object: the other hyperparameters, the four statistics, the model
OtherAttributes(s) == [s EXCEPT !.batch_size = 0, !.input_normalizer = NoNormalizer]

RtValues == {RoundRat(n, 10) : n \in -MaxVal..MaxVal}

RtInit ==
    /\ gen = NoGen
    /\ self = NoSelf /\ call = NoCall /\ files = NoFiles /\ ncalls = 0
    /\ \E v \in RtValues, m \in RtValues, s \in RtValues \ {Zero} :
        rt = [pc |-> "start", value |-> v, mean |-> m, std |-> s,
              normalized |-> None, recovered |-> None]

RtNormalize ==
    /\ rt.pc = "start"
    /\ UNCHANGED <<gen, self, call, files, ncalls>>
    /\ rt' = [rt EXCEPT !.pc = "normalized",
                        !.normalized = NormalizeValue(rt.value, rt.mean, rt.std)]

RtDenormalize ==
    /\ rt.pc = "normalized"
    /\ UNCHANGED <<gen, self, call, files, ncalls>>
    /\ rt' = [rt EXCEPT !.pc = "recovered",
                        !.recovered = DenormalizeValue(rt.normalized, rt.mean, rt.std)]

RtNext == RtNormalize \/ RtDenormalize

RoundTripSpec == RtInit /\ [][RtNext]_vars

\* |x - y| <= (|a| + |b|) * 8 * 2^-Prec, in exact arithmetic
WithinTolerance(x, y, a, b) ==
    Abs(Num(x) * Den(y) - Num(y) * Den(x)) * Den(a) * Den(b) * Pow2(Prec)
        <= 8 * (Abs(Num(a)) * Den(b) + Abs(Num(b)) * Den(a)) * Den(x) * Den(y)

\* C8 as stated: the round trip recovers the original value exactly
C8_RoundTripExact ==
    rt.pc = "recovered" => rt.recovered = rt.value

\* C8, amended: the round trip recovers the original value within rounding
\* tolerance, |recovered - value| <= 8 * 2^-Prec * (|value| + |mean|)
C8_RoundTripWithinTolerance ==
    rt.pc = "recovered" => WithinTolerance(rt.recovered, rt.value, rt.value, rt.mean)

\* a round trip that rounded and still came back within tolerance
C8_Witness ==
    /\ rt.pc = "recovered"
    /\ rt.recovered # rt.value
    /\ WithinTolerance(rt.recovered, rt.value, rt.value, rt.mean)
====
